---- MODULE Spec2Model ----
(***************************************************************************)
(* Model of test-openai-sdk.py: the driver run_all_tests, its five test    *)
(* cases, and the top-level handlers of the __main__ block.                *)
(*                                                                         *)
(* The router at localhost:3000 is the environment: every test body draws  *)
(* the router's answer to its request, and whether a keyboard interrupt    *)
(* arrives while the body runs, from small sets.  Console output is kept   *)
(* only where a statement about it is checked.  Texts are sequences of     *)
(* words (error messages) or of characters (stream fragments).             *)
(***************************************************************************)
EXTENDS Integers, Sequences, FiniteSets, TLC

VARIABLES pc, idx, m, invoked, returned, raised, results, answer, sigintIn,
          requests3, lines3, verdict5, streamText, chunkReport,
          summary, banner, topMsg, exitCode

vars == <<pc, idx, m, invoked, returned, raised, results, answer, sigintIn,
          requests3, lines3, verdict5, streamText, chunkReport,
          summary, banner, topMsg, exitCode>>

(* Bounds of the environment's inputs. *)
MaxChunks == 2
MaxErrLen == 3

(***************************************************************************)
(* Program text.                                                           *)
(***************************************************************************)
tests == <<"test1_basic_completion", "test2_streaming", "test3_multiple_models",
           "test4_system_messages", "test5_error_handling">>

models == <<"gpt-4", "gpt-4o", "gpt-3.5-turbo", "gpt-5", "o1-mini">>

(* def log(message, color='RESET'): the keywords the function accepts. *)
LogParams == {"message", "color"}

(* A call log(..., **kwargs) binds its arguments only when every keyword
   names a parameter; otherwise the call raises TypeError. *)
LogAcceptsAnyKeyword(kwargs) == TRUE

LogAccepts(kwargs) == kwargs \subseteq LogParams

(* The substring test of line 192 looks for these two words. *)
Needle == <<"Multiple", "completions">>

(* Classes below Exception that can be raised in a test body.  KeyboardInterrupt
   derives from BaseException only. *)
ExceptionClasses == {"APIError", "IndexError", "TypeError"}

(* `except Exception as e` of the test cases: does the clause catch exc? *)
ExceptBaseException(exc) == TRUE

ExceptOnlyTypeError(exc) == exc \in {"TypeError", "IndexError"}

ExceptException(exc) == exc \in ExceptionClasses

(* The handlers of __main__, tried in order. *)
MainHandler(exc) ==
    IF exc = "KeyboardInterrupt" THEN "Tests interrupted by user"
    ELSE IF exc \in ExceptionClasses THEN "Fatal error"
    ELSE "Traceback"

(* needle in text, on sequences of words. *)
StartsWith(needle, text) ==
    /\ Len(text) >= Len(needle)
    /\ SubSeq(text, 1, Len(needle)) = needle

In(needle, text) ==
    \E i \in 0..(Len(text) - Len(needle)) :
        SubSeq(text, i + 1, i + Len(needle)) = needle

(***************************************************************************)
(* The environment's inputs.                                               *)
(***************************************************************************)
RECURSIVE SeqsUpTo(_, _)
SeqsUpTo(S, n) ==
    IF n = 0 THEN {<<>>}
    ELSE LET shorter == SeqsUpTo(S, n - 1)
         IN  shorter \cup {Append(s, x) : s \in shorter, x \in S}

Words == {"Multiple", "completions", "Error"}
ErrTexts == SeqsUpTo(Words, MaxErrLen)

(* A streamed chunk: has = FALSE is a delta whose content is None. *)
Chunks == {[has |-> FALSE, content |-> <<>>]}
          \cup {[has |-> TRUE, content |-> c] : c \in {<<>>, <<"1">>, <<"2">>}}
ChunkSeqs == SeqsUpTo(Chunks, MaxChunks)

NoAnswer == [exc |-> "none", malformed |-> FALSE, text |-> <<>>, chunks |-> <<>>]

(* Answers to a plain request: a well-formed response, a response lacking a
   field the case reads, or an error raised by the SDK call. *)
PlainAnswers ==
    { NoAnswer,
      [NoAnswer EXCEPT !.malformed = TRUE],
      [NoAnswer EXCEPT !.exc = "APIError"] }

(* Answers to the streaming request: the chunks delivered, then either the
   stream closes or an error is raised. *)
StreamAnswers ==
    { [NoAnswer EXCEPT !.exc = e, !.chunks = cs] :
        e \in {"none", "APIError"}, cs \in ChunkSeqs }

(* Answers to the n = 2 request: a normal response or an error with a text. *)
RejectAnswers ==
    { NoAnswer } \cup { [NoAnswer EXCEPT !.exc = "APIError", !.text = t] : t \in ErrTexts }

(* What a try block raises around a plain request whose response it reads. *)
TryRaises(sig, ans) ==
    IF sig THEN "KeyboardInterrupt"
    ELSE IF ans.exc # "none" THEN ans.exc
    ELSE IF ans.malformed THEN "IndexError"
    ELSE "none"

(* str(e) of the exception caught. *)
ExcText(exc, ans) == IF exc = "APIError" THEN ans.text ELSE <<>>

(***************************************************************************)
(* test2_streaming, lines 98-105: the loop over the stream.                *)
(***************************************************************************)
Truthy(chunk) == chunk.has /\ chunk.content # <<>>

RECURSIVE StreamPrinted(_)
StreamPrinted(chunks) ==
    IF chunks = <<>> THEN <<>>
    ELSE IF Truthy(Head(chunks)) THEN Head(chunks).content \o StreamPrinted(Tail(chunks))
    ELSE StreamPrinted(Tail(chunks))

RECURSIVE StreamCount(_)
StreamCount(chunks) ==
    IF chunks = <<>> THEN 0
    ELSE (IF Truthy(Head(chunks)) THEN 1 ELSE 0) + StreamCount(Tail(chunks))

(***************************************************************************)
(* run_all_tests, lines 221-225: the tally and the advance of the loop.    *)
(***************************************************************************)
TallyPassesOnly(res, ok) ==
    IF ok THEN [res EXCEPT !.passed = @ + 1] ELSE res

Tally(res, ok) ==
    IF ok THEN [res EXCEPT !.passed = @ + 1]
    ELSE [res EXCEPT !.failed = @ + 1]

NextIndexStopOnFailure(i, ok) == IF ok THEN i + 1 ELSE Len(tests) + 1

NextIndex(i, ok) == i + 1

(* Lines 233-236. *)
Banner(res) ==
    IF res.failed = 0 THEN "All tests passed!" ELSE "test(s) failed"

(* test3_multiple_models: after a failed identifier the for loop goes on
   (lines 137-138), and the case returns True (line 141). *)
Test3BreakOnFailure(i) == Len(models) + 1

Test3AfterFailure(i) == i + 1

Test3Result(lines) == TRUE

(* test5_error_handling, line 198. *)
Test5ResultFromVerdict(verdict) == verdict = "Correctly rejected n > 1"

Test5Result(verdict) == TRUE

(***************************************************************************)
(* State machine.                                                          *)
(***************************************************************************)
Init ==
    /\ pc = "loop"
    /\ idx = 1
    /\ m = 1
    /\ invoked = <<>>
    /\ returned = <<>>
    /\ raised = <<>>
    /\ results = [passed |-> 0, failed |-> 0]
    /\ answer = NoAnswer
    /\ sigintIn = "none"
    /\ requests3 = <<>>
    /\ lines3 = <<>>
    /\ verdict5 = <<>>
    /\ streamText = <<>>
    /\ chunkReport = <<>>
    /\ summary = <<>>
    /\ banner = "none"
    /\ topMsg = "none"
    /\ exitCode = -1

(* A test case returns ok to the driver, which tallies it and goes on. *)
Return(ok, excs) ==
    /\ returned' = Append(returned, ok)
    /\ raised' = Append(raised, excs)
    /\ results' = Tally(results, ok)
    /\ idx' = NextIndex(idx, ok)
    /\ pc' = "loop"
    /\ UNCHANGED <<summary, banner, topMsg, exitCode>>

(* An exception leaves the test case and run_all_tests and reaches __main__. *)
Propagate(exc) ==
    /\ pc' = "exited"
    /\ topMsg' = MainHandler(exc)
    /\ exitCode' = 1
    /\ UNCHANGED <<idx, returned, raised, results, summary, banner>>

Sigint(sig) == sigintIn' = IF sig THEN tests[idx] ELSE sigintIn

(* for test in tests: test() -- the call, up to the case's try block. *)
CallTest ==
    /\ pc = "loop"
    /\ idx <= Len(tests)
    /\ invoked' = Append(invoked, tests[idx])
    /\ m' = 1
    /\ pc' = "try"
    /\ UNCHANGED <<idx, returned, raised, results, answer, sigintIn, requests3,
                   lines3, verdict5, streamText, chunkReport, summary, banner,
                   topMsg, exitCode>>

(* The try block of test1_basic_completion or test4_system_messages. *)
PlainTry(name) ==
    /\ pc = "try"
    /\ tests[idx] = name
    /\ \E sig \in BOOLEAN, ans \in PlainAnswers :
         LET exc == TryRaises(sig, ans)
         IN  /\ answer' = ans
             /\ Sigint(sig)
             /\ IF exc = "none" THEN Return(TRUE, {})
                ELSE IF ExceptException(exc) THEN Return(FALSE, {exc})
                ELSE Propagate(exc)
    /\ UNCHANGED <<m, invoked, requests3, lines3, verdict5, streamText, chunkReport>>

Test1Try == PlainTry("test1_basic_completion")

Test4Try == PlainTry("test4_system_messages")

(* The try block of test2_streaming. *)
Test2Try ==
    /\ pc = "try"
    /\ tests[idx] = "test2_streaming"
    /\ \E sig \in BOOLEAN, ans \in StreamAnswers :
         LET logged == LogAccepts({"end"})
             streamed == ~sig /\ logged
             exc == IF sig THEN "KeyboardInterrupt"
                    ELSE IF ~logged THEN "TypeError"
                    ELSE ans.exc
         IN  /\ answer' = ans
             /\ Sigint(sig)
             /\ streamText' = IF streamed THEN StreamPrinted(ans.chunks) ELSE streamText
             /\ chunkReport' = IF streamed /\ exc = "none"
                               THEN Append(chunkReport, StreamCount(ans.chunks))
                               ELSE chunkReport
             /\ IF exc = "none" THEN Return(TRUE, {})
                ELSE IF ExceptException(exc) THEN Return(FALSE, {exc})
                ELSE Propagate(exc)
    /\ UNCHANGED <<m, invoked, requests3, lines3, verdict5>>

(* One iteration of the for loop of test3_multiple_models. *)
Test3Iter ==
    /\ pc = "try"
    /\ tests[idx] = "test3_multiple_models"
    /\ m <= Len(models)
    /\ \E sig \in BOOLEAN, ans \in PlainAnswers :
         LET exc == TryRaises(sig, ans)
         IN  /\ answer' = ans
             /\ Sigint(sig)
             /\ requests3' = Append(requests3, models[m])
             /\ IF exc = "none"
                THEN /\ lines3' = Append(lines3, [model |-> models[m], label |-> "Success", exc |-> exc])
                     /\ m' = m + 1
                     /\ UNCHANGED <<pc, idx, returned, raised, results, summary,
                                    banner, topMsg, exitCode>>
                ELSE IF ExceptException(exc)
                THEN /\ lines3' = Append(lines3, [model |-> models[m], label |-> "FAILED", exc |-> exc])
                     /\ m' = Test3AfterFailure(m)
                     /\ UNCHANGED <<pc, idx, returned, raised, results, summary,
                                    banner, topMsg, exitCode>>
                ELSE /\ Propagate(exc)
                     /\ UNCHANGED <<lines3, m>>
    /\ UNCHANGED <<invoked, verdict5, streamText, chunkReport>>

(* test3_multiple_models after its loop: the hint line and return True. *)
Test3Return ==
    /\ pc = "try"
    /\ tests[idx] = "test3_multiple_models"
    /\ m > Len(models)
    /\ Return(Test3Result(lines3),
              {lines3[i].exc : i \in {j \in 1..Len(lines3) : lines3[j].label = "FAILED"}})
    /\ UNCHANGED <<m, invoked, answer, sigintIn, requests3, lines3, verdict5,
                   streamText, chunkReport>>

(* The try block of test5_error_handling and the return after it. *)
Test5Try ==
    /\ pc = "try"
    /\ tests[idx] = "test5_error_handling"
    /\ \E sig \in BOOLEAN, ans \in RejectAnswers :
         LET exc == IF sig THEN "KeyboardInterrupt" ELSE ans.exc
             verdict == IF exc = "none" THEN "Should have raised an error for n > 1"
                        ELSE IF In(Needle, ExcText(exc, ans)) THEN "Correctly rejected n > 1"
                        ELSE "Wrong error"
         IN  /\ answer' = ans
             /\ Sigint(sig)
             /\ IF exc = "none" \/ ExceptException(exc)
                THEN /\ verdict5' = Append(verdict5, verdict)
                     /\ Return(Test5Result(verdict), IF exc = "none" THEN {} ELSE {exc})
                ELSE /\ Propagate(exc)
                     /\ UNCHANGED verdict5
    /\ UNCHANGED <<m, invoked, requests3, lines3, streamText, chunkReport>>

(* After the loop: the summary, the banner, and the normal end of the script. *)
Summary ==
    /\ pc = "loop"
    /\ idx > Len(tests)
    /\ summary' = Append(summary, [total |-> results.passed + results.failed,
                                   passed |-> results.passed,
                                   failed |-> results.failed])
    /\ banner' = Banner(results)
    /\ pc' = "exited"
    /\ exitCode' = 0
    /\ UNCHANGED <<idx, m, invoked, returned, raised, results, answer, sigintIn,
                   requests3, lines3, verdict5, streamText, chunkReport, topMsg>>

(* A keyboard interrupt while control is outside every try block: in the
   driver, or after the loop of test3_multiple_models. *)
DriverInterrupt ==
    /\ \/ pc = "loop"
       \/ pc = "try" /\ tests[idx] = "test3_multiple_models" /\ m > Len(models)
    /\ sigintIn' = "run_all_tests"
    /\ Propagate("KeyboardInterrupt")
    /\ UNCHANGED <<m, invoked, answer, requests3, lines3, verdict5, streamText,
                   chunkReport>>

Next ==
    \/ CallTest
    \/ Test1Try
    \/ Test2Try
    \/ Test3Iter
    \/ Test3Return
    \/ Test4Try
    \/ Test5Try
    \/ Summary
    \/ DriverInterrupt

Spec == Init /\ [][Next]_vars

(***************************************************************************)
(* Properties.                                                             *)
(***************************************************************************)
CountOf(seq, b) == Cardinality({i \in 1..Len(seq) : seq[i] = b})

IsPrefix(s, t) == Len(s) <= Len(t) /\ s = SubSeq(t, 1, Len(s))

(* The non-empty content fragments of a stream, concatenated in order. *)
RECURSIVE Flatten(_)
Flatten(ss) == IF ss = <<>> THEN <<>> ELSE Head(ss) \o Flatten(Tail(ss))

NonEmptyFragments(chunks) ==
    LET kept == SelectSeq(chunks, LAMBDA c : c.has /\ Len(c.content) > 0)
    IN  [i \in 1..Len(kept) |-> kept[i].content]

(* The words "Multiple completions" occur, adjacent, somewhere in text. *)
MentionsMultipleCompletions(text) ==
    \E i \in 1..Len(text) :
        /\ i + 1 <= Len(text)
        /\ text[i] = "Multiple"
        /\ text[i + 1] = "completions"

Test2JustReturned == pc = "loop" /\ Len(returned) = 2

(* C1: the cases are invoked in the declared order, none twice, and a run
   that is not interrupted ends having invoked all five, whatever the
   earlier cases returned. *)
C1_AllCasesOnceInOrder ==
    /\ IsPrefix(invoked, tests)
    /\ (pc = "exited" /\ sigintIn = "none") => invoked = tests

C1_Witness ==
    /\ pc = "exited"
    /\ sigintIn = "none"
    /\ invoked = tests
    /\ returned[1] = FALSE
    /\ returned[4] = FALSE

(* C2: passed + failed is the number of cases that have returned, every
   returned case added one to exactly one counter, and the summary prints a
   total of five. *)
C2_TallyInvariant ==
    /\ results.passed = CountOf(returned, TRUE)
    /\ results.failed = CountOf(returned, FALSE)
    /\ results.passed + results.failed = Len(returned)
    /\ pc = "loop" => Len(returned) = idx - 1
    /\ summary # <<>> =>
          /\ Len(summary) = 1
          /\ summary[1].total = Len(tests)
          /\ summary[1].passed + summary[1].failed = Len(tests)

C2_Witness ==
    /\ summary # <<>>
    /\ results.passed = 2
    /\ results.failed = 3

(* C3 (as claimed): when the router would accept the streaming request and
   close the stream without error, test2_streaming returns success and is
   counted in passed; it returns failure only on an error in sending the
   request or consuming the stream. *)
C3_StreamingPassesUnlessStreamError ==
    Test2JustReturned =>
        /\ answer.exc = "none" => (returned[2] = TRUE /\ results.passed >= 1)
        /\ returned[2] = FALSE => answer.exc # "none"

(* C4 (as claimed): an SDK error raised in a case marks that case failed,
   and never reaches the fatal-error handler. *)
C4_ErrorMarksCaseFailed ==
    /\ topMsg # "Fatal error"
    /\ \A k \in 1..Len(returned) : "APIError" \in raised[k] => returned[k] = FALSE

(* C4 (amended): an error raised in the try block of a case is caught in
   that case, never reaches the fatal-error handler, and the driver goes on
   with the next case; the case is counted failed for cases 1, 2 and 4 and
   passed for the model sweep and the rejection case. *)
C4_ErrorsCaughtPerCase ==
    /\ topMsg \in {"none", "Tests interrupted by user"}
    /\ pc = "loop" => idx = Len(returned) + 1
    /\ \A k \in 1..Len(returned) :
          raised[k] # {} =>
              /\ raised[k] \subseteq ExceptionClasses
              /\ Len(invoked) >= k
              /\ returned[k] = (tests[k] \in {"test3_multiple_models", "test5_error_handling"})

C4_Witness ==
    /\ pc = "exited"
    /\ exitCode = 0
    /\ Len(returned) = 5
    /\ \A k \in {1, 3, 4, 5} : "APIError" \in raised[k]
    /\ raised[2] # {}

(* C5: once test5_error_handling has returned it has printed exactly one
   verdict: "Correctly rejected" iff the call raised an error whose text
   contains "Multiple completions", "Should have raised" when the call
   returned a response, "Wrong error" when it raised another error. *)
C5_RejectionVerdict ==
    Len(returned) = 5 =>
        /\ Len(verdict5) = 1
        /\ verdict5[1] = "Correctly rejected n > 1"
              <=> (answer.exc # "none" /\ MentionsMultipleCompletions(answer.text))
        /\ verdict5[1] = "Should have raised an error for n > 1" <=> answer.exc = "none"
        /\ verdict5[1] = "Wrong error"
              <=> (answer.exc # "none" /\ ~MentionsMultipleCompletions(answer.text))

C5_Witness ==
    /\ Len(returned) = 5
    /\ answer.exc = "APIError"
    /\ answer.text = <<"Error", "Multiple", "completions">>
    /\ verdict5 = <<"Correctly rejected n > 1">>

(* C6: test5_error_handling returns True on every path, so it adds one to
   passed and nothing to failed whatever verdict it printed. *)
C6_RejectionCaseAlwaysPasses ==
    /\ Len(verdict5) <= 1
    /\ Len(returned) = 5 =>
          /\ returned[5] = TRUE
          /\ results.passed = 1 + CountOf(SubSeq(returned, 1, 4), TRUE)
          /\ results.failed = CountOf(SubSeq(returned, 1, 4), FALSE)

C6_Witness ==
    /\ Len(returned) = 5
    /\ verdict5 = <<"Wrong error">>
    /\ returned[5] = TRUE

(* C7: the sweep requests the five identifiers once each in list order, a
   failed identifier does not stop the later ones, every request answered
   prints one line labelled by its outcome, and the case returns True for
   every set of failing identifiers. *)
C7_ModelSweep ==
    /\ IsPrefix(requests3, models)
    /\ Len(lines3) <= Len(requests3)
    /\ \A i \in 1..Len(lines3) :
          /\ lines3[i].model = models[i]
          /\ lines3[i].label \in {"Success", "FAILED"}
          /\ lines3[i].label = "Success" <=> lines3[i].exc = "none"
    /\ Len(returned) >= 3 =>
          /\ requests3 = models
          /\ Len(lines3) = Len(models)
          /\ returned[3] = TRUE

C7_Witness ==
    /\ Len(returned) >= 3
    /\ Len(lines3) = Len(models)
    /\ \A i \in 1..Len(lines3) : lines3[i].label = "FAILED"
    /\ returned[3] = TRUE

(* C8: the exit status is non-zero exactly when an interrupt or an escaped
   error cut the run short; a run whose cases failed still prints the
   summary and exits zero; an interrupt is never swallowed by a case: it
   ends the run at once, the interrupted case does not return, no further
   case is invoked and no summary is printed. *)
C8_ExitStatus ==
    /\ exitCode \in {0, 1} <=> pc = "exited"
    /\ exitCode = 1 <=> topMsg # "none"
    /\ topMsg = "Tests interrupted by user" <=> sigintIn # "none"
    /\ exitCode = 0 => (summary # <<>> /\ Len(returned) = Len(tests))
    /\ sigintIn # "none" =>
          /\ pc = "exited"
          /\ exitCode = 1
          /\ summary = <<>>
          /\ banner = "none"
    /\ \A k \in 1..Len(tests) :
          sigintIn = tests[k] => (Len(invoked) = k /\ Len(returned) = k - 1)

C8_Witness ==
    /\ sigintIn = "test4_system_messages"
    /\ exitCode = 1
    /\ results.failed >= 1
    /\ summary = <<>>

(* C9 (as claimed): the text test2_streaming prints is the concatenation of
   the non-empty fragments of the stream, and when the stream closes the
   count it reports is the number of those fragments. *)
C9_StreamOutput ==
    Test2JustReturned =>
        /\ streamText = Flatten(NonEmptyFragments(answer.chunks))
        /\ answer.exc = "none" => chunkReport = <<Len(NonEmptyFragments(answer.chunks))>>

(* C10: the banner is "All tests passed!" exactly when failed = 0; every run
   that reaches the summary has counted test2_streaming as failed, on the
   TypeError of its second log call and before any stream is read, so the
   banner is always the warning. *)
C10_BannerNeverAllPassed ==
    /\ banner # "All tests passed!"
    /\ chunkReport = <<>> /\ streamText = <<>>
    /\ Len(returned) >= 2 => (returned[2] = FALSE /\ raised[2] = {"TypeError"})
    /\ summary # <<>> =>
          /\ results.failed >= 1
          /\ banner = "All tests passed!" <=> results.failed = 0
          /\ banner = "test(s) failed" <=> results.failed > 0

C10_Witness ==
    /\ summary # <<>>
    /\ results.failed = 1
    /\ banner = "test(s) failed"

====
